---- MODULE Spec2Model ----
(***************************************************************************)
(* A model of configur's Settings class (src/configur/config.py): the      *)
(* nested store, the per-key resolution chain of _set_value_from_config,   *)
(* load/clear, and the read surface (__getattr__, __getitem__, get,        *)
(* __contains__).                                                          *)
(*                                                                         *)
(* Python strings are sequences of one-character strings, so that upper(), *)
(* lower(), startswith(), endswith(), replace() and the ${..} regular      *)
(* expression are computed, not tabulated.  None and "" are both falsy in  *)
(* the tests `if parent` / `not parent`, so the absent parent is <<>>.     *)
(***************************************************************************)
EXTENDS Integers, Sequences, FiniteSets, TLC

VARIABLES
    store,      \* Settings._store: the root Box, a function key -> value
    environ,    \* os.environ: a function variable name -> string
    ssm,        \* the boto3 side: [available, params]
    last,       \* the last call made on the instance, its inputs and outcome
    dirty       \* direct writes since the store was last reset

vars == <<store, environ, ssm, last, dirty>>

----------------------------------------------------------------------------
(* Bounds of the model. *)

\* how many variables the process environment holds
MaxEnvVars == 1
\* how many direct writes follow a reset of the store
MaxSets == 2

----------------------------------------------------------------------------
(* Strings. *)

Lowers == <<"a","b","c","d","e","f","g","h","i","j","k","l","m",
            "n","o","p","q","r","s","t","u","v","w","x","y","z">>
Uppers == <<"A","B","C","D","E","F","G","H","I","J","K","L","M",
            "N","O","P","Q","R","S","T","U","V","W","X","Y","Z">>

IndexIn(alphabet, c) ==
    IF \E i \in 1..Len(alphabet) : alphabet[i] = c
    THEN CHOOSE i \in 1..Len(alphabet) : alphabet[i] = c
    ELSE 0

UpperChar(c) == IF IndexIn(Lowers, c) > 0 THEN Uppers[IndexIn(Lowers, c)] ELSE c
LowerChar(c) == IF IndexIn(Uppers, c) > 0 THEN Lowers[IndexIn(Uppers, c)] ELSE c

\* str.upper() and str.lower()
Upper(s) == [i \in 1..Len(s) |-> UpperChar(s[i])]
Lower(s) == [i \in 1..Len(s) |-> LowerChar(s[i])]

\* str.startswith(p) and str.endswith(p)
StartsWith(s, p) == Len(p) <= Len(s) /\ SubSeq(s, 1, Len(p)) = p
EndsWith(s, p) == Len(p) <= Len(s) /\ SubSeq(s, Len(s) - Len(p) + 1, Len(s)) = p

\* str.replace(old, ""): every occurrence of old is removed, left to right
RECURSIVE Remove(_, _)
Remove(s, old) ==
    IF s = <<>> THEN <<>>
    ELSE IF StartsWith(s, old) THEN Remove(SubSeq(s, Len(old) + 1, Len(s)), old)
    ELSE <<Head(s)>> \o Remove(Tail(s), old)

Digits == <<"0","1","2","3","4","5","6","7","8","9">>
IsDigit(c) == IndexIn(Digits, c) > 0
DigitVal(c) == IndexIn(Digits, c) - 1
IsDigits(s) == s # <<>> /\ \A i \in 1..Len(s) : IsDigit(s[i])

RECURSIVE DigitsVal(_)
DigitsVal(s) == IF s = <<>> THEN 0 ELSE 10 * DigitsVal(SubSeq(s, 1, Len(s) - 1)) + DigitVal(s[Len(s)])

Unsigned(s) == IF s # <<>> /\ Head(s) \in {"-", "+"} THEN Tail(s) ELSE s
Sign(s) == IF s # <<>> /\ Head(s) = "-" THEN 0 - 1 ELSE 1

\* int(s): an optional sign and decimal digits (surrounding blanks and digit
\* separators, which int() also takes, are not in the strings of this model)
IntParses(s) == IsDigits(Unsigned(s))
IntOf(s) == Sign(s) * DigitsVal(Unsigned(s))

\* float(s): digits, optionally a point and one more digit; a float is held as
\* its number of tenths
FloatParses(s) ==
    LET u == Unsigned(s) IN
    \/ IsDigits(u)
    \/ /\ Len(u) >= 3
       /\ u[Len(u) - 1] = "."
       /\ IsDigit(u[Len(u)])
       /\ IsDigits(SubSeq(u, 1, Len(u) - 2))
FloatOf(s) ==
    LET u == Unsigned(s) IN
    IF IsDigits(u) THEN Sign(s) * 10 * DigitsVal(u)
    ELSE Sign(s) * (10 * DigitsVal(SubSeq(u, 1, Len(u) - 2)) + DigitVal(u[Len(u)]))

----------------------------------------------------------------------------
(* Values.  One record shape for what the reader yields, what callers pass *)
(* in and what the store holds:                                            *)
(*   kind     "str" | "bool" | "int" | "float" | "none" | "table" | "box"  *)
(*   wrapped  TRUE for a tomlkit item (items.String, items.Integer, ...),  *)
(*            FALSE for the builtin type                                   *)
(*   s, n, b  the payload of a str, of an int or float, of a bool          *)
(*   items    the (key, value) pairs of a dict, in order                   *)
(*   kids     the content of a Box, key -> value                           *)
(***************************************************************************)

None == <<>>
NoKids == [k \in {} |-> 0]

Blank == [kind |-> "none", wrapped |-> FALSE, s |-> <<>>, n |-> 0, b |-> FALSE,
          items |-> <<>>, kids |-> NoKids]

NoneV == Blank
StrV(s) == [Blank EXCEPT !.kind = "str", !.s = s]
BoolV(b) == [Blank EXCEPT !.kind = "bool", !.b = b]
IntV(n) == [Blank EXCEPT !.kind = "int", !.n = n]
FloatV(n) == [Blank EXCEPT !.kind = "float", !.n = n]
DictV(items) == [Blank EXCEPT !.kind = "table", !.items = items]
BoxV(kids) == [Blank EXCEPT !.kind = "box", !.kids = kids]
Item(k, v) == [key |-> k, val |-> v]

\* the tomlkit item of a value, as the reader yields it.  Booleans come out of
\* a tomlkit container as the builtin bool.
Toml(v) == IF v.kind \in {"str", "int", "float", "table"} THEN [v EXCEPT !.wrapped = TRUE] ELSE v

EmptyBox == NoKids

\* isinstance(value, dict): a dict, a tomlkit table or a Box
IsDict(v) == v.kind \in {"table", "box"}

----------------------------------------------------------------------------
(* The writer. *)

Ok(st) == [store |-> st, err |-> "none"]
Raise(st, e) == [store |-> st, err |-> e]

\* Settings.TOML_TO_BUILTIN_MAP: type(value) is one of its keys
TOML_TO_BUILTIN_MAP(v) == v.wrapped /\ v.kind \in {"str", "bool", "int", "float"}

\* Box(value): nested dicts become nested Boxes, leaves are kept as they are
RECURSIVE Box(_)
Box(v) ==
    IF v.kind = "table"
    THEN BoxV([k \in {v.items[i].key : i \in 1..Len(v.items)} |->
                 Box(v.items[CHOOSE i \in 1..Len(v.items) : v.items[i].key = k].val)])
    ELSE v

\* the two conversions set_attr makes before it writes
BuiltinOf(v) == IF TOML_TO_BUILTIN_MAP(v) THEN [v EXCEPT !.wrapped = FALSE] ELSE v
Stored(v) == IF IsDict(BuiltinOf(v)) THEN Box(BuiltinOf(v)) ELSE BuiltinOf(v)

\* self._store[parent][name] = value, after the parent Box is created when the
\* key is absent; item assignment on a str, a number or None is a TypeError
WriteNested(st, name, value, parent) ==
    IF parent \notin DOMAIN st
    THEN Ok([k \in DOMAIN st \cup {parent} |->
               IF k = parent THEN BoxV([n \in {name} |-> value]) ELSE st[k]])
    ELSE IF st[parent].kind = "box"
    THEN Ok([st EXCEPT ![parent] =
               BoxV([n \in DOMAIN st[parent].kids \cup {name} |->
                       IF n = name THEN value ELSE st[parent].kids[n]])])
    ELSE Raise(st, "TypeError")

\* self._store[name] = value
WriteRoot(st, name, value) ==
    Ok([k \in DOMAIN st \cup {name} |-> IF k = name THEN value ELSE st[k]])

set_attr(st, name, value, parent) ==
    IF parent # None
    THEN WriteNested(st, name, Stored(value), parent)
    ELSE WriteRoot(st, name, Stored(value))

----------------------------------------------------------------------------
(* The resolution chain. *)

\* f"{parent.upper()}_{name.upper()}"
ParentVar(name, parent) == Upper(parent) \o <<"_">> \o Upper(name)

\* the first match of the regular expression \${(.*?)} in a string that
\* starts with "${" and ends with "}": the text up to the first "}"
VarName(s) ==
    LET close == CHOOSE i \in 3..Len(s) :
                    s[i] = "}" /\ \A j \in 3..(i - 1) : s[j] # "}"
    IN  SubSeq(s, 3, close - 1)

\* a mutant of set_from_env_var_interpolation: an unset variable leaves the
\* reference itself in the store
set_from_env_var_interpolation_literal(st, name, value, parent) ==
    IF VarName(value.s) \in DOMAIN environ
    THEN set_attr(st, name, StrV(environ[VarName(value.s)]), parent)
    ELSE set_attr(st, name, value, parent)

set_from_env_var_interpolation(st, name, value, parent) ==
    IF VarName(value.s) \in DOMAIN environ
    THEN set_attr(st, name, StrV(environ[VarName(value.s)]), parent)
    ELSE set_attr(st, name, NoneV, parent)

Cast(v) == [raised |-> "none", val |-> v]
CastFails(e, attr) == [raised |-> e, val |-> StrV(attr)]

\* str(attr), bool(attr), int(attr), float(attr)
Construct(kind, attr) ==
    CASE kind = "str" -> Cast(StrV(attr))
      [] kind = "bool" -> Cast(BoolV(attr # <<>>))
      [] kind = "int" -> IF IntParses(attr) THEN Cast(IntV(IntOf(attr)))
                         ELSE CastFails("ValueError", attr)
      [] kind = "float" -> IF FloatParses(attr) THEN Cast(FloatV(FloatOf(attr)))
                           ELSE CastFails("ValueError", attr)

\* a mutant of CastBack: a boolean is cast as the numbers are, bool(attr)
CastBackTruthy(value, attr) ==
    IF value.kind \in {"str", "bool", "int", "float"} THEN Construct(value.kind, attr)
    ELSE CastFails("TypeError", attr)

\* the try block of _set_from_parent_env_var
CastBack(value, attr) ==
    IF TOML_TO_BUILTIN_MAP(value) THEN Construct(value.kind, attr)
    ELSE IF value.kind = "bool" THEN Cast(BoolV(Lower(attr) = <<"t","r","u","e">>))
    ELSE IF value.kind \in {"str", "int", "float"} THEN Construct(value.kind, attr)
    \* dict(""): the empty dict; dict(s), Box(s): a ValueError
    ELSE IF value.kind = "table" /\ ~value.wrapped
    THEN IF attr = <<>> THEN Cast(DictV(<<>>)) ELSE CastFails("ValueError", attr)
    ELSE IF value.kind = "box" THEN CastFails("ValueError", attr)
    \* NoneType(s) and tomlkit's Table(s): a TypeError
    ELSE CastFails("TypeError", attr)

set_from_parent_env_var(st, name, value, parent) ==
    LET attr == environ[ParentVar(name, parent)]
        cast == CastBack(value, attr)
    IN  IF cast.raised \in {"none", "ValueError"}
        THEN set_attr(st, name, cast.val, parent)
        ELSE Raise(st, cast.raised)

\* self._ssm.get_parameter(Name=.., WithDecryption=True): the response, or a
\* ClientError when the parameter store has no such name
get_parameter(pname) ==
    IF pname \in DOMAIN ssm.params
    THEN [raised |-> "none", Parameter |-> TRUE, Value |-> ssm.params[pname]]
    ELSE [raised |-> "ClientError", Parameter |-> FALSE, Value |-> <<>>]

\* a mutant of set_from_ssm: the ClientError is not caught
set_from_ssm_uncaught(st, name, value, parent) ==
    LET param == get_parameter(Remove(value.s, <<"s","s","m",":">>)) IN
    IF ~ssm.available THEN Raise(st, "ImportError")
    ELSE IF param.raised # "none" THEN Raise(st, param.raised)
    ELSE set_attr(st, name, StrV(param.Value), parent)

set_from_ssm(st, name, value, parent) ==
    LET param == get_parameter(Remove(value.s, <<"s","s","m",":">>)) IN
    IF ~ssm.available THEN Raise(st, "ImportError")
    ELSE IF param.raised = "ClientError" THEN Ok(st)
    ELSE IF param.Parameter THEN set_attr(st, name, StrV(param.Value), parent)
    ELSE Ok(st)

\* a mutant of set_from_env_var: the variable's string is cast to the type of
\* the value in the file, as a nested override is
set_from_env_var_cast(st, name, value, parent) ==
    set_attr(st, name, CastBack(value, environ[Upper(name)]).val, parent)

\* self.set_attr(name, os.getenv(name.upper()), parent): the value in the file
\* is not looked at
set_from_env_var(st, name, value, parent) ==
    set_attr(st, name, StrV(environ[Upper(name)]), parent)

IsInterpolation(v) ==
    v.kind = "str" /\ StartsWith(v.s, <<"$","{">>) /\ EndsWith(v.s, <<"}">>)
IsSsm(v) == v.kind = "str" /\ StartsWith(v.s, <<"s","s","m",":">>)

RECURSIVE set_value_from_config(_, _, _, _)
RECURSIVE set_items(_, _, _)

\* for k, v in value.items(): self._set_value_from_config(k, v, name); an
\* exception ends the loop
set_items(r, items, parent) ==
    IF items = <<>> \/ r.err # "none" THEN r
    ELSE set_items(set_value_from_config(r.store, Head(items).key, Head(items).val, parent),
                   Tail(items), parent)

set_value_from_config(st, name, value, parent) ==
    IF Upper(name) \in DOMAIN environ /\ parent = None
    THEN set_from_env_var(st, name, value, parent)
    ELSE IF parent # None /\ ParentVar(name, parent) \in DOMAIN environ
    THEN set_from_parent_env_var(st, name, value, parent)
    ELSE IF IsDict(value) THEN set_items(Ok(st), value.items, name)
    ELSE IF IsInterpolation(value) THEN set_from_env_var_interpolation(st, name, value, parent)
    ELSE IF IsSsm(value) THEN set_from_ssm(st, name, value, parent)
    ELSE set_attr(st, name, value, parent)

----------------------------------------------------------------------------
(* load and clear. *)

s_default == <<"d","e","f","a","u","l","t">>
s_dev == <<"d","e","v">>
s_devx == <<"d","e","v","x">>
s_prod == <<"p","r","o","d">>

\* self.env, the environment tag given to the constructor
env == s_dev

Section(name, items) == [name |-> name, items |-> items]
\* a path and what the reader parses from it; exists is os.path.exists(path)
File(sections) == [exists |-> TRUE, sections |-> sections]
NoFile == [exists |-> FALSE, sections |-> <<>>]

HasDefault(f) == \E i \in 1..Len(f.sections) : f.sections[i].name = s_default

\* table.startswith(self.env) or table == "default"
Selected(table) == StartsWith(table, env) \/ table = s_default

\* a mutant of clear: the store is kept
clear_keeps(st) == st

\* Settings.clear
clear(st) == EmptyBox

RECURSIVE load_sections(_, _)
\* the loop over settings_data.items(); an exception ends it
load_sections(r, sections) ==
    IF sections = <<>> \/ r.err # "none" THEN r
    ELSE IF Selected(Head(sections).name)
    THEN load_sections(set_items(r, Head(sections).items, None), Tail(sections))
    ELSE load_sections(r, Tail(sections))

\* a mutant of load: the store is reset before the path is looked at
load_clear_first(st, f) ==
    IF ~f.exists THEN Raise(clear(st), "OSError")
    ELSE IF ~HasDefault(f) THEN Raise(clear(st), "Exception")
    ELSE load_sections(Ok(clear(st)), f.sections)

\* Settings.load
load(st, f) ==
    IF ~f.exists THEN Raise(st, "OSError")
    ELSE IF ~HasDefault(f) THEN Raise(clear(st), "Exception")
    ELSE load_sections(Ok(clear(st)), f.sections)

----------------------------------------------------------------------------
(* The read surface.  A read is [err, val]. *)

Got(v) == [err |-> "none", val |-> v]
Fails(e) == [err |-> e, val |-> NoneV]

\* Settings.INTERNAL_ATTRS
INTERNAL_ATTRS == {<<"_","s","t","o","r","e">>, <<"_","s","s","m">>, <<"e","n","v">>}

\* attributes every Box has, whatever its keys: the dict methods; Attribute(name)
\* stands for an attribute that is no key of the store
BoxMethods == {<<"g","e","t">>, <<"k","e","y","s">>, <<"i","t","e","m","s">>,
               <<"v","a","l","u","e","s">>}
Attribute(name) == StrV(<<"<","m","e","t","h","o","d",">">> \o name)

\* getattr(self._store, name): the key's value, a method of the Box, or an
\* AttributeError
box_getattr(st, name) ==
    IF name \in BoxMethods THEN Got(Attribute(name))
    ELSE IF name \in DOMAIN st THEN Got(st[name])
    ELSE Fails("AttributeError")

\* a mutant of getattr_: an absent key reads as None
getattr_null(st, name) ==
    IF name \in DOMAIN st THEN Got(st[name]) ELSE Got(NoneV)

\* Settings.__getattr__
getattr_(st, name) ==
    IF name \in INTERNAL_ATTRS THEN Got(Attribute(name))
    ELSE box_getattr(st, name)

\* hasattr(settings, name)
hasattr(st, name) == getattr_(st, name).err # "AttributeError"

\* self._store.get(item): None for an absent key
box_get(st, item) == IF item \in DOMAIN st THEN st[item] ELSE NoneV

\* Settings.__getitem__
getitem(st, item) ==
    IF box_get(st, item).kind = "none" THEN Fails("KeyError")
    ELSE Got(box_get(st, item))

\* settings.get(key): Settings defines no get, so __getattr__ hands out the
\* Box's own
get(st, key) ==
    IF getattr_(st, <<"g","e","t">>).err # "none" THEN Fails(getattr_(st, <<"g","e","t">>).err)
    ELSE Got(box_get(st, key))

\* Settings.__contains__
contains(st, item) == Upper(item) \in DOMAIN st \/ Lower(item) \in DOMAIN st

----------------------------------------------------------------------------
(* The inputs the behaviours draw from. *)

k_a == <<"a">>
k_b == <<"b">>
k_c == <<"c">>
k_t == <<"t">>
k_A == <<"A">>

v_FOO == <<"F","O","O">>
s_interp == <<"$","{","F","O","O","}">>
s_ssm == <<"s","s","m",":","/","p">>
s_param == <<"/","p">>
s_secret == <<"s","e","c">>
s_x == <<"x">>
s_y == <<"y">>

\* what the variables of the process environment are set to
EnvValues == {<<"f","a","l","s","e">>, <<"T","R","U","E">>, <<"7">>}
\* the variables the keys of this model read: A for the root key a, A_B for
\* a.b, FOO for ${FOO}
EnvNames == {Upper(k_a), ParentVar(k_b, k_a), v_FOO}

Environs(names, values) ==
    UNION {[some -> values] : some \in {n \in SUBSET names : Cardinality(n) <= MaxEnvVars}}

\* boto3 missing; a parameter store that holds /p; one that does not
SsmModes == {[available |-> FALSE, params |-> NoKids],
             [available |-> TRUE, params |-> [n \in {s_param} |-> s_secret]],
             [available |-> TRUE, params |-> NoKids]}

\* the values of a key in a file, as the reader yields them
t_b == Toml(DictV(<<Item(k_b, Toml(IntV(1)))>>))
t_bc == Toml(DictV(<<Item(k_b, Toml(DictV(<<Item(k_c, BoolV(TRUE))>>)))>>))
FileValues == {Toml(StrV(s_x)), Toml(StrV(s_y)), t_b, t_bc}

\* the content of a section: the key a alone, or an ssm: reference and a
\* second key after it
Bodies ==
    {<<Item(k_a, v)>> : v \in FileValues}
    \cup {<<Item(k_a, Toml(StrV(s_ssm))), Item(k_t, Toml(StrV(s_x)))>>}

SectionNames == {s_default, s_dev, s_devx, s_prod}

\* files of one table, and files of the default table and one more, in either
\* order
Files ==
    {File(<<Section(n, b)>>) : n \in SectionNames, b \in Bodies}
    \cup {File(<<Section(s_default, b1), Section(n, b2)>>) :
            n \in SectionNames \ {s_default}, b1 \in Bodies, b2 \in Bodies}
    \cup {File(<<Section(n, b1), Section(s_default, b2)>>) :
            n \in SectionNames \ {s_default}, b1 \in Bodies, b2 \in Bodies}

\* what a caller assigns directly
AssignNames == {k_t, k_A}
AssignValues == {IntV(123), NoneV}

\* what a caller hands to _set_value_from_config
RawValues == {StrV(s_x), StrV(s_interp), StrV(s_ssm), BoolV(TRUE), IntV(123),
              Toml(FloatV(5)), DictV(<<Item(k_b, IntV(1))>>), t_bc, NoneV}
\* the (name, parent) pairs of those calls: a, a.b and b
Targets == {<<k_a, None>>, <<k_b, k_a>>, <<k_b, None>>}

\* every key a value holds, at any depth
RECURSIVE KeysIn(_)
KeysIn(v) ==
    UNION {{v.items[i].key} \cup KeysIn(v.items[i].val) : i \in 1..Len(v.items)}
KeysOf(f) == UNION {KeysIn(DictV(f.sections[i].items)) : i \in 1..Len(f.sections)}

\* the record of a call: what was called, with what, and the exception it
\* ended with ("none": it returned).  stale: a load found in the store a key
\* its file does not hold
Call(op, name, parent, value, f, r, stale) ==
    [op |-> op, name |-> name, parent |-> parent, value |-> value, file |-> f,
     err |-> r.err, stale |-> stale]

----------------------------------------------------------------------------
(* The state machine. *)

InitWith(names, values) ==
    /\ store = EmptyBox
    /\ environ \in Environs(names, values)
    /\ ssm \in SsmModes
    /\ last = Call("init", None, None, NoneV, NoFile, Ok(EmptyBox), FALSE)
    /\ dirty = 0

\* Settings() with no file
Init == InitWith(EnvNames \ {v_FOO}, {<<"7">>})
InitResolve == InitWith(EnvNames, EnvValues)

\* settings.load(path)
Load(f) ==
    /\ \E r \in {load(store, f)} :
          /\ store' = r.store
          /\ last' = Call("load", None, None, NoneV, f, r, DOMAIN store \ KeysOf(f) # {})
    /\ dirty' = 0
    /\ UNCHANGED <<environ, ssm>>

\* settings.clear()
Clear ==
    /\ store' = clear(store)
    /\ last' = Call("clear", None, None, NoneV, NoFile, Ok(store'), FALSE)
    /\ dirty' = 0
    /\ UNCHANGED <<environ, ssm>>

\* settings.set_attr(name, value, parent); settings.name = value and
\* settings[name] = value are the calls with no parent
SetAttr(name, value, parent) ==
    /\ dirty < MaxSets
    /\ \E r \in {set_attr(store, name, value, parent)} :
          /\ store' = r.store
          /\ last' = Call("set_attr", name, parent, value, NoFile, r, FALSE)
    /\ dirty' = dirty + 1
    /\ UNCHANGED <<environ, ssm>>

\* settings._set_value_from_config(name, value, parent)
SetValueFromConfig(name, value, parent) ==
    /\ dirty < MaxSets
    /\ \E r \in {set_value_from_config(store, name, value, parent)} :
          /\ store' = r.store
          /\ last' = Call("set_value", name, parent, value, NoFile, r, FALSE)
    /\ dirty' = dirty + 1
    /\ UNCHANGED <<environ, ssm>>

Next ==
    \/ \E f \in Files \cup {NoFile} : Load(f)
    \/ Clear
    \/ \E name \in AssignNames, value \in AssignValues : SetAttr(name, value, None)

Spec == Init /\ [][Next]_vars

NextResolve ==
    \/ \E target \in Targets, value \in RawValues :
          SetValueFromConfig(target[1], value, target[2])
    \/ \E name \in AssignNames, value \in AssignValues : SetAttr(name, value, None)
    \/ Clear

SpecResolve == InitResolve /\ [][NextResolve]_vars

----------------------------------------------------------------------------
(* What the properties below speak of. *)

\* the keys the reads are tried on
ProbeKeys == {k_a, k_b, k_c, k_t, k_A}

Missing == [Blank EXCEPT !.kind = "missing"]

\* the value at a path of keys below a value: a.b.c is <<a, b, c>>
RECURSIVE Lookup(_, _)
Lookup(v, path) ==
    IF path = <<>> THEN v
    ELSE IF v.kind = "box" /\ Head(path) \in DOMAIN v.kids
    THEN Lookup(v.kids[Head(path)], Tail(path))
    ELSE Missing

At(st, path) == Lookup(BoxV(st), path)
PathOf(name, parent) == IF parent = None THEN <<name>> ELSE <<parent, name>>

\* the leaves of a table, each with its path
RECURSIVE Leaves(_, _)
Leaves(v, prefix) ==
    IF v.kind = "table"
    THEN UNION {Leaves(v.items[i].val, Append(prefix, v.items[i].key)) : i \in 1..Len(v.items)}
    ELSE {[path |-> prefix, val |-> v]}

\* the sections of a file that a load applies, by position
Applied(f) == {i \in 1..Len(f.sections) :
                 f.sections[i].name = s_default \/ StartsWith(f.sections[i].name, env)}
\* those of them that the environment tag selects
EnvSections(f) == {i \in Applied(f) : f.sections[i].name # s_default}
DefaultKeys(f) ==
    UNION {{f.sections[i].items[j].key : j \in 1..Len(f.sections[i].items)} :
             i \in {n \in 1..Len(f.sections) : f.sections[n].name = s_default}}
SectionKeys(f, i) == {f.sections[i].items[j].key : j \in 1..Len(f.sections[i].items)}

Loaded == last.op = "load" /\ last.err = "none"
NoEnviron == DOMAIN environ = {}

\* item assignment below the key is possible: it is absent or holds a Box
Writable(st, parent) == parent = None \/ parent \notin DOMAIN st \/ st[parent].kind = "box"

----------------------------------------------------------------------------
\* a value as == compares it: a tomlkit item equals the builtin it wraps
RECURSIVE Plain(_)
Plain(v) ==
    IF v.kind = "box"
    THEN [v EXCEPT !.wrapped = FALSE, !.kids = [k \in DOMAIN v.kids |-> Plain(v.kids[k])]]
    ELSE [v EXCEPT !.wrapped = FALSE]

\* a scalar, or a table of scalars
Flat(v) == \A i \in 1..Len(v.items) : v.items[i].val.kind # "table"
DefaultValue(f, k) ==
    LET d == CHOOSE i \in 1..Len(f.sections) : f.sections[i].name = s_default
        j == CHOOSE n \in 1..Len(f.sections[d].items) : f.sections[d].items[n].key = k
    IN  f.sections[d].items[j].val

(* C1: after a successful load, a key that the default section and a       *)
(* section selected by the environment tag both hold has the value of the  *)
(* selected section, a table as its Box, whatever the order of the two in  *)
(* the file and whatever the kinds of the two values.  Stated of values    *)
(* that are literals or tables of literals, with no variable of the        *)
(* environment set.                                                        *)
C1_EnvironmentSectionWins ==
    (Loaded /\ NoEnviron) =>
        \A i \in EnvSections(last.file) : \A j \in 1..Len(last.file.sections[i].items) :
            LET it == last.file.sections[i].items[j] IN
            (/\ it.key \in DefaultKeys(last.file)
             /\ ~IsSsm(it.val) /\ Flat(it.val)
             /\ ~IsSsm(DefaultValue(last.file, it.key)) /\ Flat(DefaultValue(last.file, it.key)))
            => (it.key \in DOMAIN store /\ Plain(store[it.key]) = Plain(Stored(it.val)))

(* C2: _set_value_from_config on a root key whose upper-cased name is a    *)
(* variable of the environment stores the variable's string, whatever the  *)
(* value in the file is (a string, a number, a bool, a ${..} or ssm:       *)
(* reference, a table, None), and raises nothing, the secret provider      *)
(* missing or not.                                                         *)
C2_RootOverrideIsTheString ==
    (last.op = "set_value" /\ last.parent = None /\ Upper(last.name) \in DOMAIN environ) =>
        /\ last.err = "none"
        /\ last.name \in DOMAIN store
        /\ store[last.name] = StrV(environ[Upper(last.name)])

C2_Witness ==
    /\ last.op = "set_value" /\ last.parent = None /\ last.name = k_a
    /\ last.value = IntV(123)
    /\ Upper(k_a) \in DOMAIN environ
    /\ store[k_a] = StrV(<<"7">>)

\* the cases of C3: a bool, or a number the string does not parse as
C3_Case(value, s) ==
    \/ value.kind = "bool" /\ ~value.wrapped
    \/ value.kind = "int" /\ ~IntParses(s)
    \/ value.kind = "float" /\ ~FloatParses(s)
C3_Expected(value, s) ==
    IF value.kind = "bool" THEN BoolV(Lower(s) = <<"t","r","u","e">>) ELSE StrV(s)

(* C3: a nested key parent.child whose variable PARENT_CHILD is set to S,  *)
(* written where the store can take it (parent absent or a Box): a bool in *)
(* the file is stored as the bool lower(S) = "true"; an int or float that  *)
(* S does not parse as is stored as the string S, and nothing is raised.   *)
(* The same holds of the children of a table handed over as one value.     *)
C3_NestedOverrideCastsBack ==
    [][/\ (/\ last'.op = "set_value" /\ last'.parent # None
           /\ ParentVar(last'.name, last'.parent) \in DOMAIN environ
           /\ C3_Case(last'.value, environ[ParentVar(last'.name, last'.parent)])
           /\ Writable(store, last'.parent))
          => /\ last'.err = "none"
             /\ At(store', <<last'.parent, last'.name>>)
                  = C3_Expected(last'.value, environ[ParentVar(last'.name, last'.parent)])
       /\ (/\ last'.op = "set_value" /\ last'.parent = None
           /\ last'.value.kind = "table"
           /\ Upper(last'.name) \notin DOMAIN environ
           /\ Writable(store, last'.name))
          => \A i \in 1..Len(last'.value.items) :
                LET it == last'.value.items[i] IN
                (/\ ParentVar(it.key, last'.name) \in DOMAIN environ
                 /\ C3_Case(it.val, environ[ParentVar(it.key, last'.name)]))
                => /\ last'.err = "none"
                   /\ At(store', <<last'.name, it.key>>)
                        = C3_Expected(it.val, environ[ParentVar(it.key, last'.name)])
      ]_vars

C3_Witness ==
    /\ last.op = "set_value" /\ last.parent = k_a /\ last.name = k_b
    /\ last.value = BoolV(TRUE)
    /\ ParentVar(k_b, k_a) \in DOMAIN environ
    /\ environ[ParentVar(k_b, k_a)] = <<"f","a","l","s","e">>
    /\ At(store, <<k_a, k_b>>) = BoolV(FALSE)

(* C4 as stated: for a key absent from the store settings[k] and           *)
(* settings.get(k) fail with a KeyError and settings.k is None; for a key  *)
(* in the store settings[k] is its value.                                  *)
C4_AsStated ==
    \A k \in ProbeKeys :
        /\ k \notin DOMAIN store =>
              /\ getitem(store, k).err = "KeyError"
              /\ get(store, k).err = "KeyError"
              /\ getattr_(store, k) = Got(NoneV)
        /\ k \in DOMAIN store => getitem(store, k) = Got(store[k])

(* C4: for a key absent from the store settings[k] fails with a KeyError,  *)
(* settings.get(k) returns None and settings.k fails with an               *)
(* AttributeError; for a key whose value is not None, settings[k] and      *)
(* settings.k are that value.                                              *)
C4_AbsentKeyReads ==
    \A k \in ProbeKeys :
        /\ k \notin DOMAIN store =>
              /\ getitem(store, k).err = "KeyError"
              /\ get(store, k) = Got(NoneV)
              /\ getattr_(store, k).err = "AttributeError"
        /\ (k \in DOMAIN store /\ store[k].kind # "none") =>
              /\ getitem(store, k) = Got(store[k])
              /\ getattr_(store, k) = Got(store[k])

C4_Witness ==
    /\ Loaded
    /\ k_a \in DOMAIN store /\ store[k_a].kind # "none"
    /\ k_t \notin DOMAIN store
    /\ getattr_(store, k_t).err = "AttributeError"
    /\ get(store, k_t) = Got(NoneV)

(* C5 as stated: a load that fails, the path missing or the file without a *)
(* default section, leaves the store empty.                                *)
C5_AsStated ==
    (last.op = "load" /\ last.err \in {"OSError", "Exception"}) => store = EmptyBox

(* C5: a load of a file without a default section leaves the store empty;  *)
(* a load of a path that does not exist leaves the store as it was.        *)
C5_FailedLoad ==
    [][last'.op = "load" =>
          /\ last'.err = "Exception" => store' = EmptyBox
          /\ last'.err = "OSError" => store' = store
          /\ ~last'.file.exists => last'.err = "OSError"
          /\ (last'.file.exists /\ ~HasDefault(last'.file)) => last'.err = "Exception"]_vars

C5_Witness ==
    last.op = "load" /\ last.err = "OSError" /\ k_A \in DOMAIN store

(* C6: after a successful load the store is what a load of the same file   *)
(* into a fresh instance gives, whatever was loaded, assigned or cleared   *)
(* before: every root key is a key of the file, and hasattr is false for   *)
(* every key the file does not hold.                                       *)
C6_LoadLeavesNoResidue ==
    Loaded =>
        /\ store = load(EmptyBox, last.file).store
        /\ DOMAIN store \subseteq KeysOf(last.file)
        /\ \A k \in ProbeKeys : k \notin KeysOf(last.file) => ~hasattr(store, k)

C6_Witness ==
    /\ Loaded /\ last.stale
    /\ store # EmptyBox
    /\ ~hasattr(store, k_A)

(* C7: a value ${FOO} with no override of its own, written where the store *)
(* can take it, is stored as the string of the variable FOO when FOO is    *)
(* set and as None when it is not; nothing is raised and the text ${FOO}   *)
(* is not what is stored.                                                  *)
C7_Interpolation ==
    [][(/\ last'.op = "set_value"
        /\ last'.value = StrV(s_interp)
        /\ last'.parent = None => Upper(last'.name) \notin DOMAIN environ
        /\ last'.parent # None => ParentVar(last'.name, last'.parent) \notin DOMAIN environ
        /\ Writable(store, last'.parent))
       => /\ last'.err = "none"
          /\ At(store', PathOf(last'.name, last'.parent))
               = IF v_FOO \in DOMAIN environ THEN StrV(environ[v_FOO]) ELSE NoneV
          /\ At(store', PathOf(last'.name, last'.parent)) # StrV(s_interp)
      ]_vars

C7_Witness ==
    /\ last.op = "set_value" /\ last.value = StrV(s_interp)
    /\ last.name = k_b /\ last.parent = k_a
    /\ v_FOO \notin DOMAIN environ
    /\ ParentVar(k_b, k_a) \notin DOMAIN environ
    /\ At(store, <<k_a, k_b>>) = NoneV

\* the parameter store answers every fetch with a ClientError
SsmFails == ssm.available /\ s_param \notin DOMAIN ssm.params

\* the ssm: references a load reaches: (section, item) positions
SsmRefs(f) ==
    {p \in Applied(f) \X {1, 2} :
        /\ p[2] <= Len(f.sections[p[1]].items)
        /\ IsSsm(f.sections[p[1]].items[p[2]].val)
        /\ Upper(f.sections[p[1]].items[p[2]].key) \notin DOMAIN environ}

\* a file with its ssm: references taken out
RECURSIVE WithoutSsm(_)
WithoutSsm(items) ==
    IF items = <<>> THEN <<>>
    ELSE IF IsSsm(Head(items).val) THEN WithoutSsm(Tail(items))
    ELSE <<Head(items)>> \o WithoutSsm(Tail(items))
StripSsm(f) ==
    [f EXCEPT !.sections = [i \in 1..Len(f.sections) |->
        Section(f.sections[i].name, WithoutSsm(f.sections[i].items))]]

(* C8 as stated: the ssm: reference of a key fetched with a ClientError,   *)
(* the load raises nothing and the key is not in the store (no later       *)
(* section of the file sets it).                                           *)
C8_AsStated ==
    (last.op = "load" /\ HasDefault(last.file) /\ SsmFails) =>
        \A p \in SsmRefs(last.file) :
            (\A i \in Applied(last.file) :
                i > p[1] => last.file.sections[p[1]].items[p[2]].key \notin SectionKeys(last.file, i))
            => /\ last.err = "none"
               /\ last.file.sections[p[1]].items[p[2]].key \notin DOMAIN store

(* C8: the ssm: references of a file fetched with a ClientError, the load  *)
(* ends as the load of the file without those references does, with the    *)
(* same store and raising nothing that load does not raise: a reference    *)
(* writes nothing, so its key keeps the value another applied section gave *)
(* it or, with none, is absent, and every other key is resolved.           *)
C8_FailedFetchIsSkipped ==
    (last.op = "load" /\ HasDefault(last.file) /\ SsmFails /\ SsmRefs(last.file) # {}) =>
        /\ last.err = load(EmptyBox, StripSsm(last.file)).err
        /\ last.err \notin {"ClientError", "ImportError"}
        /\ NoEnviron => last.err = "none"
        /\ store = load(EmptyBox, StripSsm(last.file)).store
        /\ \A p \in SsmRefs(last.file) :
              (\A i \in Applied(last.file) :
                  last.file.sections[p[1]].items[p[2]].key \in SectionKeys(last.file, i)
                      => i = p[1])
              => last.file.sections[p[1]].items[p[2]].key \notin DOMAIN store

C8_Witness ==
    /\ Loaded /\ SsmFails /\ NoEnviron
    /\ SsmRefs(last.file) # {}
    /\ k_a \in DOMAIN store /\ store[k_a] = StrV(s_x)
    /\ k_t \in DOMAIN store /\ store[k_t] = StrV(s_x)

\* the last section of a file that a load applies
LastApplied(f) == CHOOSE i \in Applied(f) : \A j \in Applied(f) : j <= i

(* C9: after a successful load with no variable of the environment set, a  *)
(* leaf at the path k1.k2...kn, n >= 2, of the last section applied is in  *)
(* the store at that path, and a key of the path below k1 that is no root  *)
(* key of the section is no root key of the store.                         *)
C9_PathPreserved ==
    (Loaded /\ NoEnviron /\ Applied(last.file) # {}) =>
        LET sec == last.file.sections[LastApplied(last.file)] IN
        \A leaf \in Leaves(DictV(sec.items), <<>>) :
            Len(leaf.path) >= 2 =>
                /\ At(store, leaf.path) = BuiltinOf(leaf.val)
                /\ \A m \in 2..Len(leaf.path) :
                      leaf.path[m] \notin DefaultKeys(last.file) \cup SectionKeys(last.file, LastApplied(last.file))
                          => leaf.path[m] \notin DOMAIN store

(* C10: in every state, a key that `in` finds is a key settings[k] returns *)
(* a value for.                                                            *)
C10_ContainsImpliesGetitem ==
    \A k \in ProbeKeys : contains(store, k) => getitem(store, k).err = "none"
====
